---- MODULE Spec2Model ----
(***************************************************************************)
(* TMDB movie data analysis: the transformation script                     *)
(* (src/transformation/process.py), the analysis script                    *)
(* (src/transformation/analysis.py) and the fetcher's run_pipeline         *)
(* (src/extraction/fetch_data.py), each modelled as a state machine whose  *)
(* actions are the steps of the program, in program order.                 *)
(* A step that raises moves a script to "raised" and nothing runs after.   *)
(***************************************************************************)
EXTENDS Integers, Sequences, FiniteSets, TLC

(***************************************************************************)
(* Cell values.  Every value is a record whose field names tell its Python *)
(* type, so that values of different types compare unequal.                *)
(***************************************************************************)
\* NaN / None / NaT: what pandas' isna() answers True for
Null == [null |-> TRUE]
IsNull(v) == v = Null
\* a number n/d, kept in lowest terms with d > 0 (Python int or float)
IsNum(v) == "num" \in DOMAIN v
\* float infinity of the given sign
Inf(s) == [inf |-> s]
IsInf(v) == "inf" \in DOMAIN v
Str(s) == [str |-> s]
IsStr(v) == "str" \in DOMAIN v
\* a Python list of values
Lst(s) == [list |-> s]
IsList(v) == "list" \in DOMAIN v
\* a Python dict, given as a record of values
Dict(d) == [dict |-> d]
IsDict(v) == "dict" \in DOMAIN v
\* a pandas Timestamp, named by its ISO text
Date(s) == [date |-> s]
Bool(b) == [bool |-> b]

Abs(n) == IF n < 0 THEN -n ELSE n
Min(a, b) == IF a < b THEN a ELSE b

RECURSIVE GCD(_, _)
GCD(a, b) == IF b = 0 THEN a ELSE GCD(b, a % b)

\* the number n/d in lowest terms, d # 0
Rat(n, d) ==
    LET g == GCD(Abs(n), Abs(d))
        s == IF d < 0 THEN -1 ELSE 1
    IN [num |-> (s * n) \div g, den |-> (s * d) \div g]
Num(n) == Rat(n, 1)
IsZero(v) == IsNum(v) /\ v.num = 0

\* str.join
RECURSIVE Join(_, _)
Join(s, sep) ==
    IF s = <<>> THEN ""
    ELSE IF Len(s) = 1 THEN s[1]
    ELSE s[1] \o sep \o Join(Tail(s), sep)

\* the elements of a sequence
Range(s) == {s[i] : i \in DOMAIN s}

\* the subsequence of s at the positions (increasing) where Keep holds
RECURSIVE SelectIdx(_, _, _)
SelectIdx(s, Keep(_), i) ==
    IF i > Len(s) THEN <<>>
    ELSE (IF Keep(i) THEN <<s[i]>> ELSE <<>>) \o SelectIdx(s, Keep, i + 1)

(***************************************************************************)
(* The raw frame: pd.read_json of data/raw/movies.json.  Its columns are   *)
(* the keys the records carry; a key a record lacks is NaN in its row.     *)
(***************************************************************************)
\* the fields of a TMDB movie record fetched with append_to_response=credits
FullColumns ==
    << "adult", "backdrop_path", "belongs_to_collection", "budget", "genres",
       "homepage", "id", "imdb_id", "original_language", "original_title",
       "overview", "popularity", "poster_path", "production_companies",
       "production_countries", "release_date", "revenue", "runtime",
       "spoken_languages", "status", "tagline", "title", "video",
       "vote_average", "vote_count", "credits" >>

\* the fields of the record of tests/test.transformation.py
SampleColumns ==
    << "id", "title", "budget", "revenue", "status", "genres",
       "belongs_to_collection" >>

Without(cols, c) == SelectSeq(cols, LAMBDA x : x # c)

Named(n) == Dict([name |-> Str(n)])

\* the record of the sample_raw_data fixture
SampleRecord ==
    [c \in Range(SampleColumns) |->
        CASE c = "id" -> Num(100)
          [] c = "title" -> Str("Test Movie")
          [] c = "budget" -> Num(1000000)
          [] c = "revenue" -> Num(2000000)
          [] c = "status" -> Str("Released")
          [] c = "genres" -> Lst(<<Named("Action"), Named("Sci-Fi")>>)
          [] c = "belongs_to_collection" -> Named("Test Collection")]

SampleCredits ==
    Dict([cast |-> Lst(<<Named("Ann")>>),
          crew |-> Lst(<<Dict([name |-> Str("Dan"), job |-> Str("Director")])>>)])

\* a record with every field filled in
RichRecord(i, t, s) ==
    [c \in Range(FullColumns) |->
        CASE c = "adult" -> Bool(FALSE)
          [] c = "backdrop_path" -> Str("/b.jpg")
          [] c = "belongs_to_collection" -> Named("Test Collection")
          [] c = "budget" -> Num(1000000)
          [] c = "genres" -> Lst(<<Named("Action"), Named("Sci-Fi")>>)
          [] c = "homepage" -> Str("http://m")
          [] c = "id" -> i
          [] c = "imdb_id" -> Str("tt1")
          [] c = "original_language" -> Str("en")
          [] c = "original_title" -> Str("T")
          [] c = "overview" -> Str("An overview")
          [] c = "popularity" -> Num(12)
          [] c = "poster_path" -> Str("/p.jpg")
          [] c = "production_companies" -> Lst(<<Named("Marvel")>>)
          [] c = "production_countries" -> Lst(<<Named("US"), Named("UK")>>)
          [] c = "release_date" -> Str("2019-04-24")
          [] c = "revenue" -> Num(2000000)
          [] c = "runtime" -> Num(120)
          [] c = "spoken_languages" -> Lst(<<Named("English")>>)
          [] c = "status" -> s
          [] c = "tagline" -> Str("A tagline")
          [] c = "title" -> t
          [] c = "video" -> Bool(FALSE)
          [] c = "vote_average" -> Num(7)
          [] c = "vote_count" -> Num(10)
          [] c = "credits" -> SampleCredits]

\* zero placeholders, empty lists, no collection, placeholder text
ZeroRecord(i, t, s) ==
    [RichRecord(i, t, s) EXCEPT
        !["budget"] = Num(0), !["revenue"] = Num(0), !["runtime"] = Num(0),
        !["vote_count"] = Num(0), !["genres"] = Lst(<<>>),
        !["spoken_languages"] = Lst(<<>>),
        !["belongs_to_collection"] = Null, !["tagline"] = Str(""),
        !["overview"] = Str("No Data")]

\* unparseable numbers and dates, values of the wrong shape
OddRecord(i, t, s) ==
    [RichRecord(i, t, s) EXCEPT
        !["budget"] = Str("abc"), !["revenue"] = Str("2000000"),
        !["runtime"] = Null, !["release_date"] = Str("not a date"),
        !["genres"] = Str("Action"), !["production_countries"] = Null,
        !["belongs_to_collection"] = Str("Test Collection"),
        !["budget"] = Str("abc")]

\* malformed values: a genres element without a name, a genres element that
\* is no object, a collection object without a name
NamelessRecord(i, t, s) ==
    [RichRecord(i, t, s) EXCEPT
        !["budget"] = Str("abc"), !["release_date"] = Str("not a date"),
        !["genres"] = Lst(<<Named("Action"), Dict([id |-> Num(28)])>>)]

BareItemRecord(i, t, s) ==
    [RichRecord(i, t, s) EXCEPT !["genres"] = Lst(<<Str("Action")>>)]

NamelessCollectionRecord(i, t, s) ==
    [RichRecord(i, t, s) EXCEPT
        !["belongs_to_collection"] = Dict([id |-> Num(10)])]

\* the fields a sparse record fills in, in the order it fills them
SparseOrder ==
    << "id", "title", "status", "backdrop_path", "original_language",
       "popularity", "poster_path", "release_date", "budget", "revenue",
       "genres" >>

\* a record with only the first k fields of SparseOrder filled in
SparseRecord(i, t, s, k) ==
    [c \in Range(FullColumns) |->
        IF \E j \in 1..k : SparseOrder[j] = c
        THEN (IF c = "budget" THEN Num(500000) ELSE RichRecord(i, t, s)[c])
        ELSE IF c \in {"adult", "video"} THEN Bool(FALSE)
        ELSE Null]

\* the quality threshold of dropna(thresh=10)
Thresh == 10

Released == Str("Released")

\* (id, title, status) of the records drawn
Identities ==
    { <<Num(1), Str("First"), Released>>,
      <<Num(1), Str("Second"), Released>>,
      <<Num(2), Str("Other"), Released>>,
      <<Num(1), Str("Rumour"), Str("Rumored")>>,
      <<Num(1), Null, Released>>,
      <<Null, Str("NoId"), Released>>,
      <<Num(2), Str("NoStatus"), Null>> }

RawRecords ==
    { RichRecord(x[1], x[2], x[3]) : x \in Identities }
    \cup { ZeroRecord(Num(i), Str("Zero"), Released) : i \in {1, 2} }
    \cup { OddRecord(Num(i), Str("Odd"), Released) : i \in {1, 2} }
    \cup { SparseRecord(Num(2), Str("Sparse"), Released, k) :
             k \in {Thresh - 1, Thresh} }
    \cup { NamelessRecord(Num(2), Str("Nameless"), Released),
           BareItemRecord(Num(2), Str("BareItem"), Released),
           NamelessCollectionRecord(Num(2), Str("NoName"), Released) }

\* the number of records of a raw input
MaxRows == 2

\* the column lists a raw input may have: every field, or one field absent
\* from every record
RawColumnOptions ==
    { FullColumns, Without(FullColumns, "homepage"),
      Without(FullColumns, "spoken_languages"),
      Without(FullColumns, "status"),
      Without(FullColumns, "poster_path") }

Restrict(r, cols) == [c \in Range(cols) |-> r[c]]

VARIABLES
    pc,        \* where process.py stands: the last step that completed
    err,       \* the exception that ended the script and the step that
               \* raised it, or NoError
    raw,       \* the rows of the raw frame as loaded (never changed)
    columns,   \* df_movie.columns, in order
    df,        \* the rows of df_movie, each a function of its columns
    index,     \* df_movie.index: the label of each row
    origin,    \* history: the position in raw each row was loaded from
    apc,       \* where analysis.py stands: the last step that completed
    aerr,      \* the exception that ended analysis.py, or NoError
    acols,     \* the columns of analysis.py's df_movie, in order
    adf,       \* the rows of analysis.py's df_movie
    aindex,    \* the index labels of analysis.py's df_movie
    acredits,  \* the rows of df_credits: id and credits of movies.json
    result,    \* what the last ranking call printed or returned
    stats,     \* franchise_stats: one row per group, in index order
    fpc,       \* where run_pipeline stands: in its loop or returned
    movie_ids, \* the argument of run_pipeline
    outcomes,  \* history: what the fetch of each id visited came to
    results,   \* the list run_pipeline collects
    returned   \* the rows of the frame run_pipeline returns

tvars == <<pc, err, raw, columns, df, index, origin>>
avars == <<apc, aerr, acols, adf, aindex, acredits, result, stats>>
fvars == <<fpc, movie_ids, outcomes, results, returned>>
vars == <<pc, err, raw, columns, df, index, origin,
          apc, aerr, acols, adf, aindex, acredits, result, stats,
          fpc, movie_ids, outcomes, results, returned>>

ColumnSet == Range(columns)

\* no exception so far
NoError == [exc |-> "none", at |-> "none"]

\* no ranking call has produced anything
NoOutput == [kind |-> "none"]

\* analysis.py is not running
AOff ==
    /\ apc = "off"
    /\ aerr = NoError
    /\ acols = <<>>
    /\ adf = <<>>
    /\ aindex = <<>>
    /\ acredits = <<>>
    /\ result = NoOutput
    /\ stats = <<>>

\* fetch_data.py is not running
FOff ==
    /\ fpc = "off"
    /\ movie_ids = <<>>
    /\ outcomes = <<>>
    /\ results = <<>>
    /\ returned = <<>>

\* process.py is not running
TOff ==
    /\ pc = "off"
    /\ err = NoError
    /\ raw = <<>>
    /\ columns = <<>>
    /\ df = <<>>
    /\ index = <<>>
    /\ origin = <<>>

Loaded(cols, rows) ==
    /\ pc = "loaded"
    /\ err = NoError
    /\ columns = cols
    /\ raw = rows
    /\ df = rows
    /\ index = [i \in 1..Len(rows) |-> i - 1]
    /\ origin = [i \in 1..Len(rows) |-> i]

TInit ==
    /\ AOff
    /\ FOff
    /\ \/ Loaded(SampleColumns, <<SampleRecord>>)
       \/ \E cols \in RawColumnOptions, n \in 1..MaxRows :
            \E recs \in [1..n -> RawRecords] :
               Loaded(cols, [i \in 1..n |-> Restrict(recs[i], cols)])

\* an uncaught exception: the script stops where it stands
Raise(e, step) ==
    /\ pc' = "raised"
    /\ err' = [exc |-> e, at |-> step]
    /\ UNCHANGED <<raw, columns, df, index, origin>>

(***************************************************************************)
(* 1: drop the irrelevant columns                                          *)
(***************************************************************************)
cols_to_drop == <<"adult", "imdb_id", "original_title", "video", "homepage">>

\* the guard of the drop: "if col in cols_to_drop"
DropGuard(col, cols) == col \in Range(cols_to_drop)

\* DataFrame.drop(col, axis=1) raises KeyError for a label it does not find
DropRaises(cols) ==
    \E i \in DOMAIN cols_to_drop :
        DropGuard(cols_to_drop[i], cols) /\ cols_to_drop[i] \notin Range(cols)

DropColumns(cols) ==
    SelectSeq(cols, LAMBDA c : ~(c \in Range(cols_to_drop) /\ DropGuard(c, cols)))

DropIrrelevant ==
    /\ pc = "loaded"
    /\ UNCHANGED <<avars, fvars>>
    /\ IF DropRaises(columns)
       THEN Raise("KeyError", "DropIrrelevant")
       ELSE /\ pc' = "pruned"
            /\ columns' = DropColumns(columns)
            /\ df' = [i \in DOMAIN df |-> Restrict(df[i], columns')]
            /\ UNCHANGED <<err, raw, index, origin>>

(***************************************************************************)
(* 2, 3: flatten the JSON-like columns                                     *)
(***************************************************************************)
extracted_columns ==
    << "belongs_to_collection", "genres", "spoken_languages",
       "production_countries", "production_companies", "credits" >>

\* the first position of s where P holds, or 0
FirstWhere(s, P(_)) ==
    IF \E i \in DOMAIN s : P(s[i])
    THEN CHOOSE i \in DOMAIN s : P(s[i]) /\ \A j \in 1..(i - 1) : ~P(s[j])
    ELSE 0

\* item['name'] raises TypeError for an item that is no dict and KeyError
\* for a dict without the key
ItemError(item) ==
    IF ~IsDict(item) THEN "TypeError"
    ELSE IF "name" \notin DOMAIN item.dict THEN "KeyError"
    ELSE "none"

\* lambda x: x['name'] if isinstance(x, dict) else None
CollectionName(x) == IF IsDict(x) THEN x.dict.name ELSE Null
CollectionError(x) == IF IsDict(x) THEN ItemError(x) ELSE "none"

\* lambda x: "|".join([item['name'] for item in x])
\*           if isinstance(x, list) else None
JoinNames(x) ==
    IF IsList(x)
    THEN Str(Join([i \in DOMAIN x.list |-> x.list[i].dict.name.str], "|"))
    ELSE Null
JoinNamesError(x) ==
    IF ~IsList(x) THEN "none"
    ELSE LET bad == FirstWhere(x.list, LAMBDA it : ItemError(it) # "none")
         IN IF bad # 0 THEN ItemError(x.list[bad])
            ELSE IF \E i \in DOMAIN x.list : ~IsStr(x.list[i].dict.name)
                 THEN "TypeError"
            ELSE "none"

FlattenCell(col, x) ==
    IF col = "belongs_to_collection" THEN CollectionName(x) ELSE JoinNames(x)
FlattenCellError(col, x) ==
    IF col = "belongs_to_collection" THEN CollectionError(x)
    ELSE JoinNamesError(x)

\* what df_movie[column].apply(...) raises for one column: KeyError when the
\* frame has no such column, else what the first failing cell raises
FlattenColumnError(col, cols, rows) ==
    IF col \notin Range(cols) THEN "KeyError"
    ELSE LET bad == FirstWhere(rows,
                        LAMBDA r : FlattenCellError(col, r[col]) # "none")
         IN IF bad = 0 THEN "none"
            ELSE FlattenCellError(col, rows[bad][col])

FlattenError(cols, rows) ==
    LET bad == FirstWhere(extracted_columns,
                   LAMBDA c : FlattenColumnError(c, cols, rows) # "none")
    IN IF bad = 0 THEN "none"
       ELSE FlattenColumnError(extracted_columns[bad], cols, rows)

FlattenRow(r) ==
    [c \in DOMAIN r |->
        IF c \in Range(extracted_columns) THEN FlattenCell(c, r[c]) ELSE r[c]]

Flatten ==
    /\ pc = "pruned"
    /\ UNCHANGED <<avars, fvars>>
    /\ IF FlattenError(columns, df) # "none"
       THEN Raise(FlattenError(columns, df), "Flatten")
       ELSE /\ pc' = "flattened"
            /\ df' = [i \in DOMAIN df |-> FlattenRow(df[i])]
            /\ UNCHANGED <<err, raw, columns, index, origin>>

(***************************************************************************)
(* 4: convert the column datatypes                                         *)
(***************************************************************************)
numeric_cols ==
    << "budget", "id", "popularity", "revenue", "runtime", "vote_average",
       "vote_count" >>

\* the texts the inputs hold that parse as a number, with their value
NumberTexts == [t \in {"0", "2000000"} |-> IF t = "0" THEN 0 ELSE 2000000]

\* pd.to_numeric(errors='coerce'), one cell
ToNumeric(x) ==
    IF IsNum(x) THEN x
    ELSE IF IsStr(x) /\ x.str \in DOMAIN NumberTexts
         THEN Num(NumberTexts[x.str])
    ELSE Null

\* the texts the inputs hold that parse as a date
DateTexts == {"2019-04-24"}

\* pd.to_datetime(errors='coerce'), one cell
ToDatetime(x) ==
    IF IsStr(x) /\ x.str \in DateTexts THEN Date(x.str) ELSE Null

ConvertRow(r) ==
    [c \in DOMAIN r |->
        IF c \in Range(numeric_cols) THEN ToNumeric(r[c])
        ELSE IF c = "release_date" THEN ToDatetime(r[c])
        ELSE r[c]]

\* df_movie[col] for every column the step reads, the preview included
ConvertNeeds == Range(numeric_cols) \cup {"release_date", "title"}

ConvertTypes ==
    /\ pc = "flattened"
    /\ UNCHANGED <<avars, fvars>>
    /\ IF ~(ConvertNeeds \subseteq ColumnSet)
       THEN Raise("KeyError", "ConvertTypes")
       ELSE /\ pc' = "typed"
            /\ df' = [i \in DOMAIN df |-> ConvertRow(df[i])]
            /\ UNCHANGED <<err, raw, columns, index, origin>>

(***************************************************************************)
(* Replace unrealistic values, convert units, clean text placeholders      *)
(***************************************************************************)
target_cols == <<"budget", "revenue", "runtime">>

\* the divisor of the unit conversion
Million == 1000000

\* mutant of ReplaceZero: the zeros are left in place
KeepZero(x) == x

\* .replace(0, np.nan), one cell
ReplaceZero(x) == IF IsZero(x) THEN Null ELSE x

\* float division, NaN in gives NaN out, division by zero gives inf or NaN
FloatDiv(a, b) ==
    IF ~IsNum(a) \/ ~IsNum(b) THEN Null
    ELSE IF b.num = 0
         THEN (IF a.num = 0 THEN Null
               ELSE IF a.num > 0 THEN Inf(1) ELSE Inf(-1))
    ELSE Rat(a.num * b.den, a.den * b.num)

\* float subtraction
FloatSub(a, b) ==
    IF ~IsNum(a) \/ ~IsNum(b) THEN Null
    ELSE Rat(a.num * b.den - b.num * a.den, a.den * b.den)

\* df_movie['budget'] / 1000000
ToMillions(x) == FloatDiv(x, Num(Million))

text_placeholders == <<"", "No Data", "N/A", "Unknown">>
cols_text == <<"overview", "tagline">>

ReplacePlaceholder(x) ==
    IF IsStr(x) /\ x.str \in Range(text_placeholders) THEN Null ELSE x

CleanRow(r) ==
    [c \in DOMAIN r |->
        IF c \in {"budget", "revenue"} THEN ToMillions(ReplaceZero(r[c]))
        ELSE IF c = "runtime" THEN ReplaceZero(r[c])
        ELSE IF c = "vote_average"
             THEN (IF r["vote_count"] = Num(0) THEN Null ELSE r[c])
        ELSE IF c \in Range(cols_text) THEN ReplacePlaceholder(r[c])
        ELSE r[c]]

CleanNeeds ==
    Range(target_cols) \cup Range(cols_text)
        \cup {"vote_count", "vote_average", "title"}

CleanValues ==
    /\ pc = "typed"
    /\ UNCHANGED <<avars, fvars>>
    /\ IF ~(CleanNeeds \subseteq ColumnSet)
       THEN Raise("KeyError", "CleanValues")
       ELSE /\ pc' = "cleaned"
            /\ df' = [i \in DOMAIN df |-> CleanRow(df[i])]
            /\ UNCHANGED <<err, raw, columns, index, origin>>

(***************************************************************************)
(* Steps 7 to 9: the quality filters                                       *)
(***************************************************************************)
\* keep the rows at the positions where Keep holds, with their labels
KeepRows(Keep(_)) ==
    /\ df' = SelectIdx(df, Keep, 1)
    /\ index' = SelectIdx(index, Keep, 1)
    /\ origin' = SelectIdx(origin, Keep, 1)

\* mutant of HasIdentity: only the id is looked at
HasId(r) == ~IsNull(r["id"])

\* dropna(subset=['id', 'title'])
HasIdentity(r) == ~IsNull(r["id"]) /\ ~IsNull(r["title"])

DropMissingIds ==
    /\ pc = "cleaned"
    /\ UNCHANGED <<avars, fvars>>
    /\ IF ~({"id", "title"} \subseteq ColumnSet)
       THEN Raise("KeyError", "DropMissingIds")
       ELSE /\ pc' = "identified"
            /\ KeepRows(LAMBDA i : HasIdentity(df[i]))
            /\ UNCHANGED <<err, raw, columns>>

\* mutant of FirstOfId: keep='last'
LastOfId(rows, i) ==
    \A j \in (i + 1)..Len(rows) : rows[j]["id"] # rows[i]["id"]

\* drop_duplicates(subset=['id']), keep='first': row i stays when no earlier
\* row has its id
FirstOfId(rows, i) == \A j \in 1..(i - 1) : rows[j]["id"] # rows[i]["id"]

DropDuplicates ==
    /\ pc = "identified"
    /\ UNCHANGED <<avars, fvars>>
    /\ pc' = "deduped"
    /\ KeepRows(LAMBDA i : FirstOfId(df, i))
    /\ UNCHANGED <<err, raw, columns>>

\* the number of non-NA values of a row
NonNull(r) == Cardinality({c \in DOMAIN r : ~IsNull(r[c])})

\* mutant of PassesThreshold: the threshold off by one
PassesThresholdLow(r) == NonNull(r) >= Thresh - 1

\* dropna(thresh=10)
PassesThreshold(r) == NonNull(r) >= Thresh

Threshold ==
    /\ pc = "deduped"
    /\ UNCHANGED <<avars, fvars>>
    /\ pc' = "thresholded"
    /\ KeepRows(LAMBDA i : PassesThreshold(df[i]))
    /\ UNCHANGED <<err, raw, columns>>

\* mutant of IsReleased: only the rumoured movies are filtered out
IsNotRumored(r) == r["status"] # Str("Rumored")

\* df_movie['status'] == 'Released'
IsReleased(r) == r["status"] = Str("Released")

\* filter by status, then drop the status column
StatusFilter ==
    /\ pc = "thresholded"
    /\ UNCHANGED <<avars, fvars>>
    /\ IF "status" \notin ColumnSet
       THEN Raise("KeyError", "StatusFilter")
       ELSE /\ pc' = "released"
            /\ columns' = Without(columns, "status")
            /\ df' = [i \in DOMAIN SelectIdx(df, LAMBDA j : IsReleased(df[j]), 1) |->
                        Restrict(SelectIdx(df, LAMBDA j : IsReleased(df[j]), 1)[i],
                                 columns')]
            /\ index' = SelectIdx(index, LAMBDA j : IsReleased(df[j]), 1)
            /\ origin' = SelectIdx(origin, LAMBDA j : IsReleased(df[j]), 1)
            /\ UNCHANGED <<err, raw>>

(***************************************************************************)
(* Rename, reorder and enforce the schema, reset the index                 *)
(***************************************************************************)
rename_map(c) ==
    CASE c = "budget" -> "budget_musd"
      [] c = "revenue" -> "revenue_musd"
      [] OTHER -> c

target_order ==
    << "id", "title", "tagline", "release_date", "genres",
       "belongs_to_collection", "original_language", "budget_musd",
       "revenue_musd", "production_companies", "production_countries",
       "vote_count", "vote_average", "popularity", "runtime", "overview",
       "spoken_languages", "poster_path",
       "cast", "cast_size", "director", "crew_size", "credits" >>

\* df.rename(columns=rename_map), one row
RenameRow(r) ==
    [c \in {rename_map(x) : x \in DOMAIN r} |->
        r[CHOOSE x \in DOMAIN r : rename_map(x) = c]]

\* mutant of ReindexRow: a column the row lacks is filled with ""
ReindexRowFilled(r) ==
    [c \in Range(target_order) |-> IF c \in DOMAIN r THEN r[c] ELSE Str("")]

\* df.reindex(columns=target_order), one row: a column the row lacks is NaN
ReindexRow(r) ==
    [c \in Range(target_order) |-> IF c \in DOMAIN r THEN r[c] ELSE Null]

RenameReindex ==
    /\ pc = "released"
    /\ UNCHANGED <<avars, fvars>>
    /\ pc' = "reindexed"
    /\ columns' = target_order
    /\ df' = [i \in DOMAIN df |-> ReindexRow(RenameRow(df[i]))]
    /\ UNCHANGED <<err, raw, index, origin>>

\* reset_index(drop=True): the Clean Table
ResetIndex ==
    /\ pc = "reindexed"
    /\ UNCHANGED <<avars, fvars>>
    /\ pc' = "done"
    /\ index' = [i \in DOMAIN df |-> i - 1]
    /\ UNCHANGED <<err, raw, columns, df, origin>>

TNext ==
    \/ DropIrrelevant
    \/ Flatten
    \/ ConvertTypes
    \/ CleanValues
    \/ DropMissingIds
    \/ DropDuplicates
    \/ Threshold
    \/ StatusFilter
    \/ RenameReindex
    \/ ResetIndex

TSpec == TInit /\ [][TNext]_vars
(***************************************************************************)
(* analysis.py: the table read from data/processed/movies_clean.csv        *)
(***************************************************************************)
\* the column lists the table read may have: the ones process.py writes, or
\* a file that lacks one of them
TableColumnOptions ==
    { target_order, Without(target_order, "budget_musd"),
      Without(target_order, "credits") }

\* (budget_musd, revenue_musd, belongs_to_collection) of the rows drawn
Financials ==
    { <<Num(50), Num(100), Str("Saga")>>,
      <<Num(100), Num(100), Null>>,
      <<Num(0), Num(100), Null>>,
      <<Num(0), Num(0), Str("Saga")>>,
      <<Num(-1), Num(100), Null>>,
      <<Num(50), Null, Str("Saga")>> }

\* a row of movies_clean.csv: the id is the row's rank in the file, the
\* cast, director and credits columns are empty as process.py writes them
TableRow(i, f) ==
    [c \in Range(target_order) |->
        CASE c = "id" -> Num(i)
          [] c = "title" -> Str("Movie")
          [] c = "budget_musd" -> f[1]
          [] c = "revenue_musd" -> f[2]
          [] c = "belongs_to_collection" -> f[3]
          [] c = "genres" -> Str("Action|Sci-Fi")
          [] c = "popularity" -> Num(12)
          [] c = "vote_average" -> Num(7)
          [] c = "vote_count" -> Num(10)
          [] c = "runtime" -> Num(120)
          [] c = "release_date" -> Str("2019-04-24")
          [] c \in {"cast", "cast_size", "director", "crew_size", "credits"}
               -> Null
          [] OTHER -> Str("text")]

\* the number of rows of the table read
MaxTable == 2

\* the number of records of movies.json
MaxCredits == 2

\* a crew of two directors and a writer, a cast of six
LongCredits ==
    Dict([cast |-> Lst(<<Named("A1"), Named("A2"), Named("A3"), Named("A4"),
                         Named("A5"), Named("A6")>>),
          crew |-> Lst(<<Dict([name |-> Str("D1"), job |-> Str("Director")]),
                         Dict([name |-> Str("W1"), job |-> Str("Writer")]),
                         Dict([name |-> Str("D2"), job |-> Str("Director")])>>)])

\* the (id, credits) records of movies.json
CreditRecords ==
    { [id |-> Num(1), credits |-> LongCredits],
      [id |-> Num(1), credits |-> Null],
      [id |-> Num(3), credits |-> LongCredits] }

AInit ==
    /\ TOff
    /\ FOff
    /\ apc = "loaded"
    /\ aerr = NoError
    /\ result = NoOutput
    /\ stats = <<>>
    /\ \E cols \in TableColumnOptions, n \in 0..MaxTable :
         \E fs \in [1..n -> Financials] :
            /\ acols = cols
            /\ adf = [i \in 1..n |-> Restrict(TableRow(i, fs[i]), cols)]
            /\ aindex = [i \in 1..n |-> i - 1]
    /\ acredits = <<>>

AColumnSet == Range(acols)

ARaise(e, step) ==
    /\ apc' = "raised"
    /\ aerr' = [exc |-> e, at |-> step]
    /\ result' = NoOutput
    /\ UNCHANGED <<acols, adf, aindex, acredits, stats>>

\* df[col] = values: a new column goes last, an existing one is overwritten
WithColumn(cols, c) == IF c \in Range(cols) THEN cols ELSE Append(cols, c)

\* df_movie['roi'] = df_movie['revenue_musd'] / df_movie['budget_musd']
Roi(r) == FloatDiv(r["revenue_musd"], r["budget_musd"])

\* df_movie['profit_musd'] = df_movie['revenue_musd'] - df_movie['budget_musd']
Profit(r) == FloatSub(r["revenue_musd"], r["budget_musd"])

KpiRow(r) ==
    [c \in DOMAIN r \cup {"profit_musd", "roi"} |->
        IF c = "profit_musd" THEN Profit(r)
        ELSE IF c = "roi" THEN Roi(r)
        ELSE r[c]]

KpiNeeds == {"revenue_musd", "budget_musd"}

\* profit and ROI, as lines 29-33 and lines 231-233 compute them
Kpis(to, step) ==
    /\ IF ~(KpiNeeds \subseteq AColumnSet)
       THEN ARaise("KeyError", step)
       ELSE /\ apc' = to
            /\ acols' = WithColumn(WithColumn(acols, "profit_musd"), "roi")
            /\ adf' = [i \in DOMAIN adf |-> KpiRow(adf[i])]
            /\ result' = NoOutput
            /\ UNCHANGED <<aerr, aindex, acredits, stats>>

\* lines 29-33
CalcKpis ==
    /\ apc = "loaded"
    /\ UNCHANGED <<tvars, fvars>>
    /\ Kpis("kpi", "CalcKpis")

(***************************************************************************)
(* Ranking: print_ranking and rank_movies                                  *)
(***************************************************************************)
\* a < b for two floats that are not NaN
KeyLess(a, b) ==
    IF IsInf(a) THEN a.inf = -1 /\ b # a
    ELSE IF IsInf(b) THEN b.inf = 1
    ELSE a.num * b.den < b.num * a.den

\* mutant of SortsBefore: the direction is ignored
SortsBeforeAscending(a, b, ascending) == KeyLess(a, b)

\* a sorts strictly before b in the direction asked for
SortsBefore(a, b, ascending) ==
    IF ascending THEN KeyLess(a, b) ELSE KeyLess(b, a)

\* row i can come first among the rows S: no valued row of S sorts before
\* it; a row with a NaN key comes first only when S holds nothing but NaN
\* keys, none at a smaller position
CanLead(i, S, rows, col, ascending) ==
    IF IsNull(rows[i][col])
    THEN \A j \in S : IsNull(rows[j][col]) /\ i <= j
    ELSE \A j \in S :
            \/ IsNull(rows[j][col])
            \/ ~SortsBefore(rows[j][col], rows[i][col], ascending)

\* the orders (sequences of positions) in which the rows S can come out of
\* sort_values(by=col, ascending=ascending): kind is left at its default
\* 'quicksort', which is not a stable sort, so rows with equal keys come in
\* an order the build picks; NaN keys go last (na_position='last') in the
\* order they had
RECURSIVE SortOrders(_, _, _, _)
SortOrders(S, rows, col, ascending) ==
    IF S = {} THEN {<<>>}
    ELSE UNION { { <<i>> \o t : t \in SortOrders(S \ {i}, rows, col, ascending) } :
                 i \in {j \in S : CanLead(j, S, rows, col, ascending)} }

\* .head(top_n) of the rows in the order p, as index labels
TopRows(p, labels, top_n) ==
    [i \in 1..Min(top_n, Len(labels)) |-> labels[p[i]]]

\* the criteria columns a call may name
CriteriaColumns == {"revenue_musd", "roi", "imdb_id"}

\* the number of rows a call may ask for
MaxTopN == 2

print_ranking_default ==
    << "title", "budget_musd", "revenue_musd", "profit_musd", "roi",
       "vote_average" >>

rank_movies_default(criteria_col) ==
    <<"title", criteria_col, "genres", "director", "cast">>

\* the column lists a call may ask to show, besides the default
ShowOptions == { <<"title", "imdb_id">> }

\* the body shared by print_ranking (lines 46-61) and rank_movies (lines
\* 141-148): the column check, the sort, the slice and the projection
Ranking(fn, sort_col, ascending, top_n, show) ==
    IF sort_col \notin AColumnSet
    THEN /\ result' = [kind |-> "not_found", fn |-> fn, by |-> sort_col]
         /\ UNCHANGED <<apc, aerr, acols, adf, aindex, acredits, stats>>
    ELSE IF ~(Range(show) \subseteq AColumnSet)
    THEN ARaise("KeyError", fn)
    ELSE /\ \E p \in SortOrders(DOMAIN adf, adf, sort_col, ascending) :
              result' = [kind |-> "rows", fn |-> fn, by |-> sort_col,
                         ascending |-> ascending, top_n |-> top_n,
                         rows |-> TopRows(p, aindex, top_n), cols |-> show]
         /\ UNCHANGED <<apc, aerr, acols, adf, aindex, acredits, stats>>

\* print_ranking(title, df, sort_col, ascending, top_n, cols_to_show); a call
\* leaves the frame as it found it, so the calls of lines 64-101 are one
\* call each from the same state
print_ranking ==
    /\ apc = "kpi"
    /\ UNCHANGED <<tvars, fvars>>
    /\ result = NoOutput
    /\ \E sort_col \in CriteriaColumns, ascending \in BOOLEAN,
          top_n \in 0..MaxTopN,
          show \in {print_ranking_default} \cup ShowOptions :
            Ranking("print_ranking", sort_col, ascending, top_n, show)

(***************************************************************************)
(* Cast and director                                                       *)
(***************************************************************************)
\* the number of actors get_cast keeps
TopCast == 5

\* the text get_cast gives for a credits dict with a cast
CastNames(credits_data) ==
    LET cast == credits_data.dict.cast.list
    IN Str(Join([i \in 1..Min(TopCast, Len(cast)) |-> cast[i].dict.name.str],
                "|"))

\* the text get_director gives for a credits dict with a crew
DirectorNames(credits_data) ==
    LET crew == credits_data.dict.crew.list
        directors == SelectSeq(crew,
                        LAMBDA x : "job" \in DOMAIN x.dict
                                   /\ x.dict.job = Str("Director"))
    IN Str(Join([i \in DOMAIN directors |-> directors[i].dict.name.str], "|"))

\* get_cast and get_director, with the value they return for no credits
get_cast(credits_data, default) ==
    IF IsDict(credits_data) /\ "cast" \in DOMAIN credits_data.dict
    THEN CastNames(credits_data) ELSE default

get_director(credits_data, default) ==
    IF IsDict(credits_data) /\ "crew" \in DOMAIN credits_data.dict
    THEN DirectorNames(credits_data) ELSE default

CastRow(r, default) ==
    [c \in DOMAIN r \cup {"cast", "director"} |->
        IF c = "cast" THEN get_cast(r["credits"], default)
        ELSE IF c = "director" THEN get_director(r["credits"], default)
        ELSE r[c]]

\* lines 125-128: cast and director from the credits column of the file
PopulateCast ==
    /\ apc = "kpi"
    /\ UNCHANGED <<tvars, fvars>>
    /\ IF "credits" \notin AColumnSet
       THEN ARaise("KeyError", "PopulateCast")
       ELSE /\ apc' = "cast"
            /\ acols' = WithColumn(WithColumn(acols, "cast"), "director")
            /\ adf' = [i \in DOMAIN adf |-> CastRow(adf[i], Null)]
            /\ result' = NoOutput
            /\ UNCHANGED <<aerr, aindex, acredits, stats>>

\* the rows of pd.merge(left, df_credits, on='id', how='left') that the left
\* row r gives: one per credits record with its id, in their order, or one
\* with a NaN credits when there is none
MergeRow(r, credit_rows) ==
    LET matches == SelectSeq(credit_rows, LAMBDA c : c.id = r["id"])
        joined(v) == [c \in DOMAIN r \cup {"credits"} |->
                         IF c = "credits" THEN v ELSE r[c]]
    IN IF matches = <<>> THEN <<joined(Null)>>
       ELSE [i \in DOMAIN matches |-> joined(matches[i].credits)]

RECURSIVE MergeRows(_, _)
MergeRows(rows, credit_rows) ==
    IF rows = <<>> THEN <<>>
    ELSE MergeRow(Head(rows), credit_rows)
            \o MergeRows(Tail(rows), credit_rows)

\* lines 151-166: drop the credits column, read id and credits of
\* movies.json and merge them in
MergeCredits ==
    /\ apc = "cast"
    /\ UNCHANGED <<tvars, fvars>>
    /\ IF "id" \notin AColumnSet
       THEN ARaise("KeyError", "MergeCredits")
       ELSE /\ apc' = "merged"
            /\ \E m \in 0..MaxCredits : acredits' \in [1..m -> CreditRecords]
            /\ acols' = Append(Without(acols, "credits"), "credits")
            /\ adf' = MergeRows(
                        [i \in DOMAIN adf |->
                            Restrict(adf[i], Without(acols, "credits"))],
                        acredits')
            /\ aindex' = [i \in DOMAIN adf' |-> i - 1]
            /\ result' = NoOutput
            /\ UNCHANGED <<aerr, stats>>

\* lines 186-190: cast and director from the merged credits
RepopulateCast ==
    /\ apc = "merged"
    /\ UNCHANGED <<tvars, fvars>>
    /\ apc' = "enriched"
    /\ adf' = [i \in DOMAIN adf |-> CastRow(adf[i], Str(""))]
    /\ result' = NoOutput
    /\ UNCHANGED <<aerr, acols, aindex, acredits, stats>>

\* rank_movies(df, criteria_col, ascending, top_n, show_cols)
rank_movies ==
    /\ apc = "enriched"
    /\ UNCHANGED <<tvars, fvars>>
    /\ result = NoOutput
    /\ \E criteria_col \in CriteriaColumns, ascending \in BOOLEAN,
          top_n \in 0..MaxTopN :
         \E show_cols \in {rank_movies_default(criteria_col)} \cup ShowOptions :
            Ranking("rank_movies", criteria_col, ascending, top_n, show_cols)

\* lines 231-233
RecalcKpis ==
    /\ apc = "enriched"
    /\ UNCHANGED <<tvars, fvars>>
    /\ Kpis("rekpi", "RecalcKpis")

(***************************************************************************)
(* Franchise against standalone                                            *)
(***************************************************************************)
\* float addition
FloatAdd(a, b) ==
    IF IsNull(a) \/ IsNull(b) THEN Null
    ELSE IF IsInf(a) THEN (IF IsInf(b) /\ b # a THEN Null ELSE a)
    ELSE IF IsInf(b) THEN b
    ELSE Rat(a.num * b.den + b.num * a.den, a.den * b.den)

\* a float divided by a positive count
DivideBy(a, n) ==
    IF IsNum(a) THEN Rat(a.num, a.den * n) ELSE a

RECURSIVE FloatSum(_)
FloatSum(vals) ==
    IF vals = <<>> THEN Num(0) ELSE FloatAdd(Head(vals), FloatSum(Tail(vals)))

Valued(vals) == SelectSeq(vals, LAMBDA v : ~IsNull(v))

\* 'mean': the NaN values are skipped, no value gives NaN
Mean(vals) ==
    IF Valued(vals) = <<>> THEN Null
    ELSE DivideBy(FloatSum(Valued(vals)), Len(Valued(vals)))

\* 'median': the middle of the sorted values that are not NaN
Median(vals) ==
    LET v == Valued(vals)
        n == Len(v)
        asrows == [i \in 1..n |-> [key |-> v[i]]]
        p == CHOOSE q \in SortOrders(1..n, asrows, "key", TRUE) : TRUE
    IN IF n = 0 THEN Null
       ELSE IF n % 2 = 1 THEN v[p[(n + 1) \div 2]]
       ELSE DivideBy(FloatAdd(v[p[n \div 2]], v[p[n \div 2 + 1]]), 2)

\* 'count': the values that are not NaN
Count(vals) == Len(Valued(vals))

\* df_movie['is_franchise'] = df_movie['belongs_to_collection'].notna()
IsFranchise(r) == ~IsNull(r["belongs_to_collection"])

FlagRow(r) ==
    [c \in DOMAIN r \cup {"is_franchise"} |->
        IF c = "is_franchise" THEN Bool(IsFranchise(r)) ELSE r[c]]

\* lines 235-237
FranchiseFlag ==
    /\ apc = "rekpi"
    /\ UNCHANGED <<tvars, fvars>>
    /\ IF "belongs_to_collection" \notin AColumnSet
       THEN ARaise("KeyError", "FranchiseFlag")
       ELSE /\ apc' = "flagged"
            /\ acols' = WithColumn(acols, "is_franchise")
            /\ adf' = [i \in DOMAIN adf |-> FlagRow(adf[i])]
            /\ result' = NoOutput
            /\ UNCHANGED <<aerr, aindex, acredits, stats>>

\* the group keys groupby('is_franchise') finds, sorted: False before True
GroupKeys(rows) ==
    (IF \E i \in DOMAIN rows : rows[i]["is_franchise"] = Bool(FALSE)
     THEN <<FALSE>> ELSE <<>>)
    \o (IF \E i \in DOMAIN rows : rows[i]["is_franchise"] = Bool(TRUE)
        THEN <<TRUE>> ELSE <<>>)

\* the values of column c in the rows of the group
GroupValues(rows, key, c) ==
    LET members == SelectSeq(rows, LAMBDA r : r["is_franchise"] = Bool(key))
    IN [i \in DOMAIN members |-> members[i][c]]

\* one row of the aggregate, under the index label given
GroupStats(rows, key, label) ==
    [label |-> label,
     revenue_musd |-> Mean(GroupValues(rows, key, "revenue_musd")),
     roi |-> Median(GroupValues(rows, key, "roi")),
     budget_musd |-> Mean(GroupValues(rows, key, "budget_musd")),
     popularity |-> Mean(GroupValues(rows, key, "popularity")),
     vote_average |-> Mean(GroupValues(rows, key, "vote_average")),
     movie_count |-> Count(GroupValues(rows, key, "title"))]

StatsNeeds ==
    {"revenue_musd", "roi", "budget_musd", "popularity", "vote_average",
     "title"}

\* franchise_stats.index = ['Standalone', 'Franchise']
index_labels == <<"Standalone", "Franchise">>

\* setting an index of another length than the frame raises ValueError
IndexMismatch(keys) == Len(keys) # Len(index_labels)

\* lines 239-252: group, aggregate, rename the index
FranchiseStats ==
    /\ apc = "flagged"
    /\ UNCHANGED <<tvars, fvars>>
    /\ IF ~(StatsNeeds \subseteq AColumnSet)
       THEN ARaise("KeyError", "FranchiseStats")
       ELSE IF IndexMismatch(GroupKeys(adf))
       THEN ARaise("ValueError", "FranchiseStats")
       ELSE /\ apc' = "compared"
            /\ stats' = [g \in DOMAIN GroupKeys(adf) |->
                            GroupStats(adf, GroupKeys(adf)[g], index_labels[g])]
            /\ result' = NoOutput
            /\ UNCHANGED <<aerr, acols, adf, aindex, acredits>>

ANext ==
    \/ CalcKpis
    \/ print_ranking
    \/ PopulateCast
    \/ MergeCredits
    \/ RepopulateCast
    \/ rank_movies
    \/ RecalcKpis
    \/ FranchiseFlag
    \/ FranchiseStats

ASpec == AInit /\ [][ANext]_vars

(***************************************************************************)
(* fetch_data.py: TMDBDataFetcher.run_pipeline, one action per pass of its *)
(* loop and one for what follows the loop                                  *)
(***************************************************************************)
\* the number of ids of a call
MaxIds == 3

\* the ids a call may list, in any order and more than once
MovieIds == {0, 1, 2}

\* the record TMDB answers with for a movie id
MovieRecord(mid) == Dict([id |-> Num(mid), title |-> Str("Mock Movie")])

\* what the request for one id comes to: a response whose status is good
\* and whose body is the record, a response raise_for_status() rejects, a
\* timeout after 10 s, or another exception of session.get or json()
RequestOutcomes(mid) ==
    { [mid |-> mid, kind |-> "ok", body |-> MovieRecord(mid)],
      [mid |-> mid, kind |-> "http_error", body |-> Null],
      [mid |-> mid, kind |-> "timeout", body |-> Null],
      [mid |-> mid, kind |-> "exception", body |-> Null] }

\* id 0: no request is made
NoRequest(mid) == [mid |-> mid, kind |-> "skipped", body |-> Null]

\* fetch_single_movie(movie_id): None for id 0, the json of a good
\* response, None after an HTTPError (logged as a warning) or any other
\* Exception (logged as an error)
fetch_single_movie(movie_id, outcome) ==
    IF movie_id = 0 THEN Null
    ELSE IF outcome.kind = "ok" THEN outcome.body
    ELSE Null

\* the truth value Python gives a fetched value: None and {} are false
Truthy(data) == ~IsNull(data) /\ ~(IsDict(data) /\ DOMAIN data.dict = {})

\* mutant of Appended: what the fetch returned is appended whatever it is
AppendedAlways(list, data) == Append(list, data)

\* if data: results.append(data)
Appended(list, data) == IF Truthy(data) THEN Append(list, data) ELSE list

FInit ==
    /\ TOff
    /\ AOff
    /\ fpc = "loop"
    /\ \E n \in 0..MaxIds : movie_ids \in [1..n -> MovieIds]
    /\ outcomes = <<>>
    /\ results = <<>>
    /\ returned = <<>>

\* lines 79-86: one pass of "for mid in movie_ids"
FetchNext ==
    /\ fpc = "loop"
    /\ Len(outcomes) < Len(movie_ids)
    /\ LET mid == movie_ids[Len(outcomes) + 1]
       IN \E o \in (IF mid = 0 THEN {NoRequest(mid)} ELSE RequestOutcomes(mid)) :
            /\ outcomes' = Append(outcomes, o)
            /\ results' = Appended(results, fetch_single_movie(mid, o))
    /\ UNCHANGED <<fpc, movie_ids, returned>>
    /\ UNCHANGED <<tvars, avars>>

\* lines 88-93: the loop is over; the frame of the results is saved and
\* returned
ReturnFrame ==
    /\ fpc = "loop"
    /\ Len(outcomes) = Len(movie_ids)
    /\ fpc' = "returned"
    /\ returned' = results
    /\ UNCHANGED <<movie_ids, outcomes, results>>
    /\ UNCHANGED <<tvars, avars>>

FNext ==
    \/ FetchNext
    \/ ReturnFrame

\* every request returns or raises within its timeout and its retries, and
\* the loop sleeps 0.25 s a pass: a pass that can run does run
FSpec == FInit /\ [][FNext]_vars /\ WF_vars(FNext)

(***************************************************************************)
(* The Clean Table: properties of process.py                               *)
(***************************************************************************)
Finished == pc \in {"done", "raised"}

\* raw record k as the quality filters see it: pruned, flattened, typed and
\* cleaned, the status column still in place
WorkingRow(k) ==
    CleanRow(ConvertRow(FlattenRow(
        [c \in DOMAIN raw[k] \ Range(cols_to_drop) |-> raw[k][c]])))

\* the raw records carrying the id v
WithId(v) == {k \in DOMAIN raw : ~IsNull(v) /\ ToNumeric(raw[k]["id"]) = v}

\* the ids that two or more raw records share
SharedIds ==
    {v \in {ToNumeric(raw[k]["id"]) : k \in DOMAIN raw} :
        Cardinality(WithId(v)) >= 2}

RowsWithId(v) == {i \in DOMAIN df : df[i]["id"] = v}

SetMin(S) == CHOOSE x \in S : \A y \in S : x <= y

\* C1 (as claimed): the transformation of the single sample record of the
\* tests completes without error, and the Clean Table is exactly one row
\* with id 100, title "Test Movie", budget_musd 1.0, revenue_musd 2.0,
\* genres "Action|Sci-Fi" and belongs_to_collection "Test Collection".
C1_SampleScenario ==
    (raw = <<SampleRecord>> /\ Finished) =>
        /\ pc = "done"
        /\ Len(df) = 1
        /\ df[1]["id"] = Num(100)
        /\ df[1]["title"] = Str("Test Movie")
        /\ df[1]["budget_musd"] = Num(1)
        /\ df[1]["revenue_musd"] = Num(2)
        /\ df[1]["genres"] = Str("Action|Sci-Fi")
        /\ df[1]["belongs_to_collection"] = Str("Test Collection")

\* C2 (as claimed): when two or more raw records share an id, the Clean
\* Table has exactly one row with that id, derived from the first record
\* with that id in input order.
C2_FirstOfSharedId ==
    pc = "done" =>
        \A v \in SharedIds :
            /\ Cardinality(RowsWithId(v)) = 1
            /\ \A i \in RowsWithId(v) : origin[i] = SetMin(WithId(v))

\* the raw records with the id v that survive dropna(subset=['id','title'])
IdentifiedWithId(v) == {k \in WithId(v) : ~IsNull(raw[k]["title"])}

\* C2 (amended): no id occurs in two Clean Table rows; for an id that two
\* or more raw records share, the Clean Table has at most one row, and it
\* is derived from the first record with that id whose title is not null;
\* the row is there exactly when that record is Released and has at least
\* 10 non-null values at the threshold.
C2_FirstIdentifiedOfSharedId ==
    pc = "done" =>
        /\ \A i, j \in DOMAIN df : i # j => df[i]["id"] # df[j]["id"]
        /\ \A v \in SharedIds :
            /\ Cardinality(RowsWithId(v)) <= 1
            /\ \A i \in RowsWithId(v) :
                 /\ IdentifiedWithId(v) # {}
                 /\ origin[i] = SetMin(IdentifiedWithId(v))
            /\ RowsWithId(v) # {} <=>
                 /\ IdentifiedWithId(v) # {}
                 /\ raw[SetMin(IdentifiedWithId(v))]["status"] = Str("Released")
                 /\ NonNull(WorkingRow(SetMin(IdentifiedWithId(v)))) >= Thresh

\* C2 witness: two records share an id, the first has no title, and the
\* Clean Table row with that id comes from the second
C2_Witness ==
    /\ pc = "done"
    /\ Len(raw) >= 2
    /\ raw[1]["id"] = raw[2]["id"]
    /\ IsNull(raw[1]["title"])
    /\ \E i \in DOMAIN df : origin[i] = 2 /\ df[i]["id"] = raw[1]["id"]

\* C3: no record whose status is not "Released" contributes a row to the
\* Clean Table, and the Clean Table has no status column.
C3_ReleasedOnly ==
    pc = "done" =>
        /\ "status" \notin ColumnSet
        /\ \A i \in DOMAIN df :
             /\ "status" \notin DOMAIN df[i]
             /\ raw[origin[i]]["status"] = Str("Released")

\* C3 witness: a Clean Table with a row, from an input that also holds a
\* record with an identity whose status is null or "Rumored"
C3_Witness ==
    /\ pc = "done"
    /\ Len(df) >= 1
    /\ \E k \in DOMAIN raw :
         /\ raw[k]["status"] # Str("Released")
         /\ ~IsNull(raw[k]["id"]) /\ ~IsNull(raw[k]["title"])
         /\ \A i \in DOMAIN df : df[i]["id"] # raw[k]["id"]
    /\ \E k \in DOMAIN raw : IsNull(raw[k]["status"])

\* C4 (as claimed): every row of the final Clean Table has at least 10
\* non-null values across its columns.
C4_TenNonNullInCleanTable ==
    pc = "done" => \A i \in DOMAIN df : NonNull(df[i]) >= Thresh

\* the non-null values of a working row that the target schema keeps
KeptNonNull(w) ==
    Cardinality({c \in DOMAIN w :
                    ~IsNull(w[c]) /\ rename_map(c) \in Range(target_order)})

\* C4 (amended): every row of the final Clean Table is derived from a
\* record that had at least 10 non-null values when the threshold was
\* applied, the status column and the columns outside the target list
\* counted; the final row keeps those of them that lie in target columns.
C4_TenNonNullAtThreshold ==
    /\ pc = "thresholded" => \A i \in DOMAIN df : NonNull(df[i]) >= Thresh
    /\ pc = "done" =>
         \A i \in DOMAIN df :
            /\ NonNull(WorkingRow(origin[i])) >= Thresh
            /\ NonNull(df[i]) = KeptNonNull(WorkingRow(origin[i]))

\* C4 witness: a Clean Table row with fewer than 10 non-null values
C4_Witness ==
    /\ pc = "done"
    /\ \E i \in DOMAIN df : NonNull(df[i]) < Thresh

\* out is src, a raw amount, in millions: null for a source that is zero or
\* does not parse, else src / 1,000,000
InMillions(src, out) ==
    LET v == ToNumeric(src)
    IN IF IsNull(v) \/ IsZero(v) THEN IsNull(out)
       ELSE /\ IsNum(out)
            /\ out.num * v.den * Million = v.num * out.den

\* C5: in every Clean Table row budget_musd is null when the source budget
\* was 0 or unparseable and else the source budget / 1,000,000 (1,000,000
\* gives 1.0), likewise revenue_musd; runtime is null when the source
\* runtime was 0; none of the three is ever 0.
C5_UnitsAndZeros ==
    pc = "done" =>
        \A i \in DOMAIN df :
            LET src == raw[origin[i]]
            IN /\ InMillions(src["budget"], df[i]["budget_musd"])
               /\ InMillions(src["revenue"], df[i]["revenue_musd"])
               /\ (src["budget"] = Num(1000000)
                     => df[i]["budget_musd"] = Num(1))
               /\ (IsZero(ToNumeric(src["runtime"]))
                     => IsNull(df[i]["runtime"]))
               /\ \A c \in {"budget_musd", "revenue_musd", "runtime"} :
                     ~IsZero(df[i][c])

\* C5 witness: a Clean Table with a row from a record of budget 0 and a
\* row of budget_musd 1.0
C5_Witness ==
    /\ pc = "done"
    /\ \E i \in DOMAIN df :
         /\ raw[origin[i]]["budget"] = Num(0)
         /\ raw[origin[i]]["runtime"] = Num(0)
         /\ IsNull(df[i]["budget_musd"])
    /\ \E i \in DOMAIN df :
         /\ df[i]["budget_musd"] = Num(1)
         /\ df[i]["revenue_musd"] = Num(2)

ListColumns ==
    {"genres", "spoken_languages", "production_countries",
     "production_companies"}

\* the text the claim gives for a raw list value: the names joined by "|"
\* for a list, null otherwise
Flattened(x) ==
    IF IsList(x)
    THEN Str(Join([j \in DOMAIN x.list |-> x.list[j].dict.name.str], "|"))
    ELSE Null

\* every element of every list of the raw input is an object with a name
WellFormedLists ==
    \A k \in DOMAIN raw : \A c \in DOMAIN raw[k] :
        c \in Range(extracted_columns) =>
            FlattenCellError(c, raw[k][c]) = "none"

\* C6 (as claimed): for each of the four list columns and every raw
\* record, a list becomes its names joined by "|" in list order, and a
\* value that is absent or not a list becomes null, without raising.
C6_ListFlattening ==
    WellFormedLists =>
        /\ err.at # "Flatten"
        /\ pc = "flattened" =>
             \A i \in DOMAIN df : \A c \in ListColumns :
                /\ c \in DOMAIN df[i]
                /\ df[i][c] =
                     (IF c \in DOMAIN raw[origin[i]]
                      THEN Flattened(raw[origin[i]][c]) ELSE Null)
(***************************************************************************)
(* The KPIs, the rankings and the franchise comparison: properties of      *)
(* analysis.py                                                             *)
(***************************************************************************)
\* the steps after which every row carries the roi the script computed
KpisComputed ==
    apc \in {"kpi", "cast", "merged", "enriched", "rekpi", "flagged",
             "compared"}

\* C7 (as claimed): once the KPIs are computed, roi is null in every row
\* whose budget_musd is null, zero or negative, roi is never infinite, and
\* for budget_musd > 0 roi equals revenue_musd / budget_musd.
C7_RoiInvariant ==
    KpisComputed =>
        \A i \in DOMAIN adf :
            LET b == adf[i]["budget_musd"]
                v == adf[i]["revenue_musd"]
                roi == adf[i]["roi"]
            IN /\ ~IsInf(roi)
               /\ (IsNull(b) \/ (IsNum(b) /\ b.num <= 0)) => IsNull(roi)
               /\ (IsNum(b) /\ b.num > 0) =>
                     IF IsNull(v) THEN IsNull(roi)
                     ELSE /\ IsNum(roi)
                          /\ roi.num * b.num * v.den = v.num * b.den * roi.den

\* every row of the table has a null belongs_to_collection
AllStandalone ==
    \A i \in DOMAIN adf : IsNull(adf[i]["belongs_to_collection"])

\* no row of the table has a null belongs_to_collection
AllFranchise ==
    \A i \in DOMAIN adf : ~IsNull(adf[i]["belongs_to_collection"])

\* the franchise comparison has run, to its end or to an exception
ComparisonRan ==
    \/ apc = "compared"
    \/ apc = "raised" /\ aerr.at = "FranchiseStats"

\* C8 (as claimed): on a table whose rows all have a null
\* belongs_to_collection, or all a non-null one, the franchise comparison
\* completes without error and returns exactly the group present, under
\* its label ("Standalone" alone when every belongs_to_collection is null).
C8_SingleGroupComparison ==
    (/\ ComparisonRan
     /\ StatsNeeds \subseteq AColumnSet
     /\ adf # <<>>
     /\ AllStandalone \/ AllFranchise) =>
        /\ apc = "compared"
        /\ Len(stats) = 1
        /\ stats[1].label = (IF AllStandalone THEN "Standalone" ELSE "Franchise")
        /\ stats[1].movie_count = Len(adf)

\* the position in the table of the row with the index label l
PositionOf(l) == CHOOSE i \in DOMAIN aindex : aindex[i] = l

\* the criteria value of the row with the index label l
KeyOf(l) == adf[PositionOf(l)][result.by]

\* the key a comes strictly ahead of the key b in the direction the call
\* asked for, a null key behind every other
Ahead(a, b) ==
    IF IsNull(a) THEN FALSE
    ELSE IF IsNull(b) THEN TRUE
    ELSE IF result.ascending THEN KeyLess(a, b) ELSE KeyLess(b, a)

Tied(a, b) == ~Ahead(a, b) /\ ~Ahead(b, a)

\* the rows returned are min(top_n, rows) rows of the table, sorted in the
\* direction asked for, and no row left out sorts ahead of one returned
FirstRowsSorted ==
    LET L == result.rows
    IN /\ Len(L) = Min(result.top_n, Len(adf))
       /\ \A i \in DOMAIN L : L[i] \in Range(aindex)
       /\ \A i, j \in DOMAIN L : i < j =>
             L[i] # L[j] /\ ~Ahead(KeyOf(L[j]), KeyOf(L[i]))
       /\ \A m \in Range(aindex) \ Range(L) : \A i \in DOMAIN L :
             ~Ahead(KeyOf(m), KeyOf(L[i]))

\* C9 (as claimed): a ranking returns min(top_n, rows) rows, the first rows
\* of the table sorted by the criteria column in the direction asked for,
\* rows with equal criteria values in their original row order.
C9_RankStable ==
    result.kind = "rows" =>
        /\ FirstRowsSorted
        /\ \A i, j \in DOMAIN result.rows :
             (i < j /\ Tied(KeyOf(result.rows[i]), KeyOf(result.rows[j])))
                => PositionOf(result.rows[i]) < PositionOf(result.rows[j])
        /\ \A m \in Range(aindex) \ Range(result.rows) :
             \A i \in DOMAIN result.rows :
                Tied(KeyOf(m), KeyOf(result.rows[i]))
                   => PositionOf(result.rows[i]) < PositionOf(m)

\* C9 (amended): a ranking returns min(top_n, rows) rows, the first rows of
\* the table sorted by the criteria column in the direction asked for, the
\* rows with a null criteria value last in either direction and in their
\* original row order; rows with equal non-null criteria values come in no
\* particular order.
C9_RankSorted ==
    result.kind = "rows" =>
        /\ FirstRowsSorted
        /\ \A i, j \in DOMAIN result.rows :
             (/\ i < j
              /\ IsNull(KeyOf(result.rows[i]))
              /\ IsNull(KeyOf(result.rows[j])))
                => PositionOf(result.rows[i]) < PositionOf(result.rows[j])

\* C9 witness: a descending ranking that returns two rows of distinct
\* keys, from a table that also has two rows with equal keys
C9_Witness ==
    /\ result.kind = "rows"
    /\ ~result.ascending
    /\ Len(result.rows) = 2
    /\ Ahead(KeyOf(result.rows[1]), KeyOf(result.rows[2]))
    /\ PositionOf(result.rows[1]) > PositionOf(result.rows[2])
    /\ \E i, j \in DOMAIN adf :
         /\ i # j
         /\ ~IsNull(adf[i][result.by])
         /\ adf[i][result.by] = adf[j][result.by]

\* C10 (as claimed): a ranking called with a criteria column the table
\* lacks reports that the column was not found and raises nothing, and no
\* operation of the analysis raises an unhandled exception for a column
\* its input lacks.
C10_MissingColumnReported ==
    /\ result.kind = "rows" => result.by \in AColumnSet
    /\ result.kind = "not_found" => result.by \notin AColumnSet
    /\ aerr.exc # "KeyError"

(***************************************************************************)
(* Schema enforcement and column pruning: properties of process.py         *)
(***************************************************************************)
\* the columns of the working table when the schema is enforced: the raw
\* columns less the pruned ones and status
WorkingColumns ==
    (DOMAIN raw[1] \ Range(cols_to_drop)) \ {"status"}

\* the working columns that the rename maps onto the target column c
SourcesOf(c) == {x \in WorkingColumns : rename_map(x) = c}

\* C11: the Clean Table's column sequence is exactly the target list in its
\* order; a target column the working table lacks is null in every row, a
\* target column it has keeps its values, no column outside the target list
\* is left, and the row index is 0..n-1.
C11_SchemaEnforced ==
    pc = "done" =>
        /\ columns = target_order
        /\ index = [i \in 1..Len(df) |-> i - 1]
        /\ \A i \in DOMAIN df :
             /\ DOMAIN df[i] = Range(target_order)
             /\ \A c \in Range(target_order) :
                  IF SourcesOf(c) = {} THEN IsNull(df[i][c])
                  ELSE \A x \in SourcesOf(c) :
                          df[i][c] = WorkingRow(origin[i])[x]

\* C11 witness: a Clean Table from an input without poster_path and with
\* backdrop_path, whose first row was not the first record loaded
C11_Witness ==
    /\ pc = "done"
    /\ Len(df) >= 1
    /\ origin[1] # 1
    /\ "poster_path" \notin DOMAIN raw[1]
    /\ "backdrop_path" \in DOMAIN raw[1]
    /\ ~IsNull(df[1]["budget_musd"])

\* the pruning step has run, to its end or to an exception
PruningRan == pc # "loaded"

\* C12 (as claimed): for a raw input that lacks any subset of the excluded
\* fields, the pruning stage completes without error, and after it none of
\* the excluded fields is a column of the working table.
C12_PruningToleratesAbsence ==
    PruningRan =>
        /\ err.at # "DropIrrelevant"
        /\ ColumnSet \cap Range(cols_to_drop) = {}

(***************************************************************************)
(* Malformed values: properties of process.py                              *)
(***************************************************************************)
\* every record of the raw input carries every TMDB field, id and title
\* among them with a value
CompleteRecords ==
    \A k \in DOMAIN raw :
        /\ DOMAIN raw[k] = Range(FullColumns)
        /\ ~IsNull(raw[k]["id"])
        /\ ~IsNull(raw[k]["title"])

\* the value of field c in record k is malformed: a budget that is no
\* number, a release_date that is no date, a list column or a collection
\* whose flattening fails
Malformed(k, c) ==
    \/ c = "budget" /\ ~IsNull(raw[k][c]) /\ IsNull(ToNumeric(raw[k][c]))
    \/ c = "release_date" /\ ~IsNull(raw[k][c]) /\ IsNull(ToDatetime(raw[k][c]))
    \/ c \in Range(extracted_columns) /\ FlattenCellError(c, raw[k][c]) # "none"

\* C13 (as claimed): for a raw input whose records all carry id and title,
\* a malformed value in another field never makes the Transformer raise,
\* and the field is null in the row of the Clean Table.
C13_MalformedNeverRaises ==
    CompleteRecords =>
        /\ err = NoError
        /\ pc = "done" =>
             \A i \in DOMAIN df : \A c \in DOMAIN raw[origin[i]] :
                Malformed(origin[i], c) => IsNull(df[i][rename_map(c)])

(***************************************************************************)
(* The fetch batch: properties of fetch_data.py                            *)
(***************************************************************************)
\* the records of the ids visited whose fetch succeeded, in visiting order
SuccessRecords ==
    LET ok == SelectSeq(outcomes, LAMBDA o : o.kind = "ok")
    IN [i \in DOMAIN ok |-> MovieRecord(ok[i].mid)]

\* the ids are visited in list order, one outcome each, and the results
\* are the records of the successes so far; what is returned is the
\* results after the last id
BatchSoFar ==
    /\ Len(outcomes) <= Len(movie_ids)
    /\ \A k \in DOMAIN outcomes :
         /\ outcomes[k].mid = movie_ids[k]
         /\ outcomes[k].kind = "skipped" <=> movie_ids[k] = 0
    /\ results = SuccessRecords
    /\ fpc = "returned" =>
         /\ Len(outcomes) = Len(movie_ids)
         /\ returned = SuccessRecords

\* C14: whatever each fetch comes to (success, HTTP error, timeout or other
\* exception, id 0), run_pipeline visits every id in order and returns,
\* and the records returned are exactly those of the ids whose fetch
\* succeeded, in the order of the id list; a failed id adds no record and
\* does not stop the ids after it from being fetched.
C14_BatchNeverAborts == []BatchSoFar /\ <>(fpc = "returned")

\* C14 witness: a returned batch in which an HTTP error and a timeout or
\* other exception each come before a success, id 0 among the ids
C14_Witness ==
    /\ fpc = "returned"
    /\ Len(returned) >= 1
    /\ \E k \in DOMAIN outcomes : outcomes[k].kind = "skipped"
    /\ \E j, k \in DOMAIN outcomes :
         /\ j < k
         /\ outcomes[j].kind \in {"http_error", "timeout", "exception"}
         /\ outcomes[k].kind = "ok"

(***************************************************************************)
(* The order of the quality filters: properties of process.py              *)
(***************************************************************************)
\* record k has an id and a title
Identified(k) ==
    ~IsNull(WorkingRow(k)["id"]) /\ ~IsNull(WorkingRow(k)["title"])

\* record k is the first identified record with its id
FirstIdentified(k) ==
    /\ Identified(k)
    /\ \A j \in 1..(k - 1) :
         Identified(j) => WorkingRow(j)["id"] # WorkingRow(k)["id"]

\* record k, first of its id, has 10 non-null values, status counted
Sufficient(k) == FirstIdentified(k) /\ NonNull(WorkingRow(k)) >= Thresh

\* record k passed the threshold and its status is "Released"
SufficientReleased(k) ==
    Sufficient(k) /\ WorkingRow(k)["status"] = Str("Released")

\* the positions of the raw records, in order
Positions == [k \in DOMAIN raw |-> k]

\* the non-null values of record k, the status column not counted
NonNullBesideStatus(k) ==
    Cardinality({c \in DOMAIN WorkingRow(k) \ {"status"} :
                    ~IsNull(WorkingRow(k)[c])})

\* C15 (as claimed): the filters run in the order null id or title,
\* duplicates, status (and the status column dropped), 10 non-null values;
\* so the rows the 10-non-null test is applied to all survived the status
\* filter and have no status column, and every row that passes has 10
\* non-null values beside its status.
C15_StatusBeforeThreshold ==
    /\ pc = "deduped" =>
         /\ "status" \notin ColumnSet
         /\ \A i \in DOMAIN df :
              /\ "status" \in DOMAIN raw[origin[i]]
              /\ raw[origin[i]]["status"] = Str("Released")
    /\ pc = "done" =>
         \A i \in DOMAIN df : NonNullBesideStatus(origin[i]) >= Thresh

\* C15 (amended): the filters run in the order null id or title,
\* duplicates, 10 non-null values, status (and the status column dropped);
\* the 10-non-null test is applied to the deduplicated rows whatever their
\* status and counts the status column.
C15_ThresholdBeforeStatus ==
    /\ pc = "identified" =>
         origin = SelectIdx(Positions, LAMBDA k : Identified(k), 1)
    /\ pc = "deduped" =>
         origin = SelectIdx(Positions, LAMBDA k : FirstIdentified(k), 1)
    /\ pc = "thresholded" =>
         /\ origin = SelectIdx(Positions, LAMBDA k : Sufficient(k), 1)
         /\ \A i \in DOMAIN df : df[i] = WorkingRow(origin[i])
    /\ pc \in {"released", "reindexed", "done"} =>
         /\ origin = SelectIdx(Positions, LAMBDA k : SufficientReleased(k), 1)
         /\ "status" \notin ColumnSet

\* C15 witness: a Clean Table with a row that had exactly 10 non-null
\* values with its status counted, from an input with a record that passed
\* the threshold and is not Released and a record without a title
C15_Witness ==
    /\ pc = "done"
    /\ \E i \in DOMAIN df :
         /\ NonNull(WorkingRow(origin[i])) = Thresh
         /\ NonNullBesideStatus(origin[i]) < Thresh
    /\ \E k \in DOMAIN raw :
         Sufficient(k) /\ WorkingRow(k)["status"] # Str("Released")

(***************************************************************************)
(* Empty lists: properties of process.py                                   *)
(***************************************************************************)
\* the list columns for which record k has an empty list
EmptyLists(k) ==
    {c \in ListColumns \cap DOMAIN raw[k] : raw[k][c] = Lst(<<>>)}

\* C16 (as claimed): a raw record whose genres, spoken_languages,
\* production_countries or production_companies is an empty list has null,
\* not an empty string, in that column of the Clean Table, and the
\* 10-non-null filter does not count that column as a non-null value.
C16_EmptyListIsNull ==
    /\ pc = "done" =>
         \A i \in DOMAIN df : \A c \in EmptyLists(origin[i]) :
            IsNull(df[i][c])
    /\ pc = "thresholded" =>
         \A i \in DOMAIN df :
            Cardinality({c \in DOMAIN df[i] \ EmptyLists(origin[i]) :
                            ~IsNull(df[i][c])}) >= Thresh

(***************************************************************************)
(* Credit enrichment: properties of analysis.py                            *)
(***************************************************************************)
\* a row of the table without the columns the enrichment writes
Core(r) == [c \in DOMAIN r \ {"credits", "cast", "director"} |-> r[c]]

\* the merge of lines 151-166 has just run
MergeStep == apc = "cast" /\ apc' = "merged"

\* the extraction of lines 186-190 has just run
ExtractStep == apc = "merged" /\ apc' = "enriched"

\* C17 (as claimed): whatever the raw records (several of one id, none
\* for an id of the table), the enriched table has exactly one row per
\* Clean Table row, in the same order and with unique ids, and a row no
\* raw record matches gets cast = "" and director = "".
C17_EnrichmentPreservesRows ==
    [][ /\ MergeStep =>
             /\ Len(adf') = Len(adf)
             /\ \A i \in DOMAIN adf : Core(adf'[i]) = Core(adf[i])
             /\ \A i, j \in DOMAIN adf' :
                  i # j => adf'[i]["id"] # adf'[j]["id"]
        /\ ExtractStep =>
             /\ Len(adf') = Len(adf)
             /\ \A i \in DOMAIN adf' :
                  (\A k \in DOMAIN acredits : acredits[k].id # adf'[i]["id"])
                     => /\ adf'[i]["cast"] = Str("")
                        /\ adf'[i]["director"] = Str("")
      ]_vars
====
